---- MODULE Spec2Model ----
(***************************************************************************)
(* Distributed_GA: the population store with its predicate-filtered views  *)
(* (DGA/Pool.py) and the process-handoff protocol that dispatches workers  *)
(* and callbacks around one lock file (DGA/Server.py, SLURM/Server.py).    *)
(***************************************************************************)
EXTENDS Integers, Sequences, FiniteSets, TLC

(***************************************************************************)
(* Bounds of the model.                                                    *)
(***************************************************************************)
NumKeys == 3

Keys == 1..NumKeys

\* Parameters.fitness is None until the record is evaluated.
NoFitness == 0

\* The record objects, and the fitness each carries once it is evaluated
\* (the scenario values 0.1, 0.5, 0.9 and 0.7, scaled by ten).  The pool
\* scenarios draw their values from the first three.
FitTable == <<1, 5, 9, 7>>
AllObjs == DOMAIN FitTable
FitnessOf(o) == FitTable[o]
Objs == AllObjs \ {Len(FitTable)}

\* "G" is a Pool, "S" and "T" are Subset_Pool objects.
Pools == {"G", "S", "T"}
SubPools == {"S", "T"}
CondKinds == {"tested", "fit", "key", "top"}

VARIABLES
  data,          \* data[p]: the dict content of pool object p, key -> object
  subset_pools,  \* subset_pools[p]: the list p.subset_pools
  condition,     \* condition[s]: the predicate of Subset_Pool s
  heap,          \* heap[o]: the fitness field of record object o
  last,          \* the last operation performed and whether it raised
  iterations,    \* Server.iterations, the iteration budget
  num_parallel_processes,
  pool_files,    \* <run>/pool: gene name -> gene record
  pool_lock,     \* the processes (client ids) holding POOL_LOCK.lock
  args_files,    \* <run>/run_args/client<id>_args.pkl, by client id
  log_files,     \* <run>/logs/<id>.log: the number of lines, by client id
  init_proc,     \* the process running Server.init
  procs,         \* the live and ended processes started by make_call
  dispatched,    \* by client id: run_client calls made so far
  fetched,       \* by client id: server_callback fetches that succeeded
  last_write,    \* the last write to <run>/pool: by whom, lock held or not
  clock,         \* the wall clock, in seconds
  param_pool,    \* entries keyed by hash(Parameters): hash_ -> payload
  gene_pool,     \* entries keyed by get_pool_key(gene): key -> payload
  made_params,   \* the payloads Parameters objects were created with
  made_genes     \* the payloads create_gene was called with

poolVars == <<data, subset_pools, condition, heap, last>>
serverVars == <<iterations, num_parallel_processes, pool_files, pool_lock,
                args_files, log_files, init_proc, procs, dispatched, fetched,
                last_write>>
keyVars == <<clock, param_pool, gene_pool, made_params, made_genes>>

EmptyDict == [x \in {} |-> 0]
DictSet(f, k, v) == [x \in (DOMAIN f) \cup {k} |-> IF x = k THEN v ELSE f[x]]
DictDel(f, k) == [x \in (DOMAIN f) \ {k} |-> f[x]]

\* A predicate that reads only its arguments (key, record).
Pure(c) == c # "top"

\* Subset_Pool.condition(key, value) of subset pool s, evaluated while the
\* pools hold d.  "top" is the scenario predicate 'top two by fitness': it
\* ranks the record against the current content of the pool G.
Cond(s, d, k, v) ==
  CASE condition[s] = "tested" -> heap[v] # NoFitness
    [] condition[s] = "fit"    -> heap[v] >= 5
    [] condition[s] = "key"    -> k % 2 = 1
    [] OTHER -> Cardinality({j \in (DOMAIN d["G"]) \ {k} :
                               heap[d["G"][j]] > heap[v]}) < 2

RECURSIVE PoolSetItem(_, _, _, _)
RECURSIVE PoolDelItem(_, _, _)
RECURSIVE CascadeSet(_, _, _, _, _)
RECURSIVE CascadeDel(_, _, _, _)

\* Subset_Pool.__setitem__ that removes the key when the predicate fails.
SubsetSetItemDropOnReject(d, s, k, v) ==
  IF Cond(s, d, k, v) THEN PoolSetItem(d, s, k, v)
  ELSE IF k \in DOMAIN d[s] THEN PoolDelItem(d, s, k) ELSE d

\* Subset_Pool.__setitem__ without the test of the predicate.
SubsetSetItemNoGate(d, s, k, v) == PoolSetItem(d, s, k, v)

\* Subset_Pool.__setitem__: the write gate.
SubsetSetItem(d, s, k, v) ==
  IF Cond(s, d, k, v) THEN PoolSetItem(d, s, k, v) ELSE d

\* The loop of Pool.__setitem__ over self.subset_pools, from position i.
CascadeSet(d, subs, i, k, v) ==
  IF i > Len(subs) THEN d
  ELSE LET s == subs[i]
           d1 == IF k \in DOMAIN d[s] /\ ~Cond(s, d, k, v)
                   THEN PoolDelItem(d, s, k)
                 ELSE IF Cond(s, d, k, v)
                   THEN SubsetSetItem(d, s, k, v)
                 ELSE d
       IN CascadeSet(d1, subs, i + 1, k, v)

\* Pool.__setitem__: cascade to the subset pools, then dict.__setitem__.
PoolSetItem(d, p, k, v) ==
  [CascadeSet(d, subset_pools[p], 1, k, v) EXCEPT ![p] = DictSet(@, k, v)]

\* The loop of Pool.__delitem__ removing the key from each subset pool's
\* dict only, not from the pools registered under it.
RECURSIVE CascadeDelShallow(_, _, _, _)
CascadeDelShallow(d, subs, i, k) ==
  IF i > Len(subs) THEN d
  ELSE CascadeDelShallow([d EXCEPT ![subs[i]] = DictDel(@, k)], subs, i + 1, k)

\* The loop of Pool.__delitem__ over self.subset_pools, from position i.
CascadeDel(d, subs, i, k) ==
  IF i > Len(subs) THEN d
  ELSE LET s == subs[i]
           d1 == IF k \in DOMAIN d[s] THEN PoolDelItem(d, s, k) ELSE d
       IN CascadeDel(d1, subs, i + 1, k)

\* Pool.__delitem__ without the loop over the subset pools.
PoolDelItemNoCascade(d, p, k) == [d EXCEPT ![p] = DictDel(@, k)]

\* Pool.__delitem__: cascade, then dict.__delitem__ (KeyError when the key
\* is absent: the cascade has run by then, the dict is left as it is).
PoolDelItem(d, p, k) ==
  [CascadeDel(d, subset_pools[p], 1, k) EXCEPT ![p] = DictDel(@, k)]

DelRaises(d, p, k) == k \notin DOMAIN d[p]

MinKey(ks) == CHOOSE k \in ks : \A j \in ks : k <= j

RECURSIVE SeedLoop(_, _, _, _)
RECURSIVE UpdateLoop(_, _, _, _)
RECURSIVE ExtendLoop(_, _, _)
RECURSIVE ReinitSubs(_, _, _)
RECURSIVE UpdateSubs(_, _, _)

\* "for key, value in self.items(): sub_pool[key] = value" over the keys ks
\* of the items src, in the order of the keys.
SeedLoop(d, s, src, ks) ==
  IF ks = {} THEN d
  ELSE LET k == MinKey(ks)
       IN SeedLoop(SubsetSetItem(d, s, k, src[k]), s, src, ks \ {k})

\* Pool.reinitialize_subsets: the loop over self.subset_pools, from i.
ReinitSubs(d, p, i) ==
  IF i > Len(subset_pools[p]) THEN d
  ELSE ReinitSubs(SeedLoop(d, subset_pools[p][i], d[p], DOMAIN d[p]), p, i + 1)

\* The inner loop of Pool.update_subpools without its delete branch.
RECURSIVE UpdateLoopAddOnly(_, _, _, _)
UpdateLoopAddOnly(d, s, src, ks) ==
  IF ks = {} THEN d
  ELSE LET k == MinKey(ks)
           d1 == IF Cond(s, d, k, src[k])
                   THEN SubsetSetItem(d, s, k, src[k])
                 ELSE d
       IN UpdateLoopAddOnly(d1, s, src, ks \ {k})

\* The inner loop of Pool.update_subpools for one subset pool s.
UpdateLoop(d, s, src, ks) ==
  IF ks = {} THEN d
  ELSE LET k == MinKey(ks)
           d1 == IF ~Cond(s, d, k, src[k]) /\ k \in DOMAIN d[s]
                   THEN PoolDelItem(d, s, k)
                 ELSE IF Cond(s, d, k, src[k])
                   THEN SubsetSetItem(d, s, k, src[k])
                 ELSE d
       IN UpdateLoop(d1, s, src, ks \ {k})

\* Pool.update_subpools: the loop over self.subset_pools, from i.
UpdateSubs(d, p, i) ==
  IF i > Len(subset_pools[p]) THEN d
  ELSE UpdateSubs(UpdateLoop(d, subset_pools[p][i], d[p], DOMAIN d[p]), p, i + 1)

\* Pool.extend: self[key] = value for every item of other, a sequence of
\* <<key, value>> in the order of other.items(), from position i.
ExtendLoop(d, other, i) ==
  IF i > Len(other) THEN d
  ELSE ExtendLoop(PoolSetItem(d, "G", other[i][1], other[i][2]), other, i + 1)

\* The pools reachable from p through subset_pools (p included).
RECURSIVE Below(_, _)
Below(p, n) ==
  IF n = 0 THEN {p}
  ELSE {p} \cup UNION {Below(subset_pools[p][i], n - 1) :
                         i \in 1..Len(subset_pools[p])}
Descendants(p) == Below(p, Cardinality(Pools))
Registered(s) == \E p \in Pools : \E i \in 1..Len(subset_pools[p]) :
                   subset_pools[p][i] = s
ParentOf(s) == CHOOSE p \in Pools : \E i \in 1..Len(subset_pools[p]) :
                   subset_pools[p][i] = s

\* {k: v in pool p | condition_s(k, v)}
Filter(s, p) ==
  LET ks == {k \in DOMAIN data[p] : Cond(s, data, k, data[p][k])}
  IN [k \in ks |-> data[p][k]]

Op(o, flag, hit) == [op |-> o, flag |-> flag, hit |-> hit]

(***************************************************************************)
(* The operations of Pool and Subset_Pool.                                 *)
(***************************************************************************)
\* G[k] = v
Set(k, v) ==
  /\ data' = PoolSetItem(data, "G", k, v)
  /\ last' = Op("set", FALSE, k \in DOMAIN data["G"])
  /\ UNCHANGED <<subset_pools, condition, heap, serverVars, keyVars>>

\* del G[k]; last.flag: KeyError was raised
Delete(k) ==
  /\ data' = IF DelRaises(data, "G", k)
               THEN CascadeDel(data, subset_pools["G"], 1, k)
               ELSE PoolDelItem(data, "G", k)
  /\ last' = Op("delete", DelRaises(data, "G", k), FALSE)
  /\ UNCHANGED <<subset_pools, condition, heap, serverVars, keyVars>>

\* G.extend(other)
Extend(other) ==
  /\ data' = ExtendLoop(data, other, 1)
  /\ last' = Op("extend", FALSE, FALSE)
  /\ UNCHANGED <<subset_pools, condition, heap, serverVars, keyVars>>

\* p.add_subset_pool(s), s a Subset_Pool that has no parent yet
AddSubsetPool(p, s) ==
  /\ ~Registered(s)
  /\ p \notin Descendants(s)
  /\ subset_pools' = [subset_pools EXCEPT ![p] = Append(@, s)]
  /\ data' = SeedLoop(data, s, data[p], DOMAIN data[p])
  /\ last' = Op("add_subset_pool", FALSE, FALSE)
  /\ UNCHANGED <<condition, heap, serverVars, keyVars>>

\* s[k] = v, written directly to the Subset_Pool s; last.flag: the write
\* gate rejected it, last.hit: s held k before
SubsetSet(s, k, v) ==
  /\ data' = SubsetSetItem(data, s, k, v)
  /\ last' = Op("subset_set", ~Cond(s, data, k, v), k \in DOMAIN data[s])
  /\ UNCHANGED <<subset_pools, condition, heap, serverVars, keyVars>>

\* del s[k], directly on the Subset_Pool s; last.flag: KeyError was raised
SubsetDelete(s, k) ==
  /\ data' = IF DelRaises(data, s, k)
               THEN CascadeDel(data, subset_pools[s], 1, k)
               ELSE PoolDelItem(data, s, k)
  /\ last' = Op("subset_delete", DelRaises(data, s, k), FALSE)
  /\ UNCHANGED <<subset_pools, condition, heap, serverVars, keyVars>>

\* G.update_subpools()
UpdateSubpools ==
  /\ data' = UpdateSubs(data, "G", 1)
  /\ last' = Op("update_subpools", FALSE, FALSE)
  /\ UNCHANGED <<subset_pools, condition, heap, serverVars, keyVars>>

\* G.reinitialize_subsets()
ReinitializeSubsets ==
  /\ data' = ReinitSubs(data, "G", 1)
  /\ last' = Op("reinitialize_subsets", FALSE, FALSE)
  /\ UNCHANGED <<subset_pools, condition, heap, serverVars, keyVars>>

\* Parameters.set_fitness / set_tested on the record object o, in place:
\* every pool that holds o sees the change, no pool method is called.
SetFitness(o) ==
  /\ heap' = [heap EXCEPT ![o] = FitnessOf(o)]
  /\ last' = Op("set_fitness", FALSE, FALSE)
  /\ UNCHANGED <<data, subset_pools, condition, serverVars, keyVars>>

\* An entry written to G by the dict itself (dict.update, dict.setdefault,
\* or __setitem__ on an unpickled Pool that has no subset_pools yet).
RawSet(k, v) ==
  /\ data' = [data EXCEPT !["G"] = DictSet(@, k, v)]
  /\ last' = Op("raw_set", FALSE, FALSE)
  /\ UNCHANGED <<subset_pools, condition, heap, serverVars, keyVars>>

\* An entry removed from G by the dict itself (dict.pop, dict.popitem).
RawPop(k) ==
  /\ k \in DOMAIN data["G"]
  /\ data' = [data EXCEPT !["G"] = DictDel(@, k)]
  /\ last' = Op("raw_pop", FALSE, FALSE)
  /\ UNCHANGED <<subset_pools, condition, heap, serverVars, keyVars>>

vars == <<data, subset_pools, condition, heap, last, iterations,
          num_parallel_processes, pool_files, pool_lock, args_files,
          log_files, init_proc, procs, dispatched, fetched, last_write,
          clock, param_pool, gene_pool, made_params, made_genes>>

\* No key is computed in the scenarios of the pools and of the orchestrator.
KeyIdle ==
  /\ clock = 0
  /\ param_pool = EmptyDict
  /\ gene_pool = EmptyDict
  /\ made_params = {}
  /\ made_genes = {}

\* The store scenarios run inside one process: no orchestrator is started.
ServerIdle ==
  /\ iterations = 0
  /\ num_parallel_processes = 0
  /\ pool_files = EmptyDict
  /\ pool_lock = {}
  /\ args_files = EmptyDict
  /\ log_files = EmptyDict
  /\ init_proc = [pc |-> "exit", init_genes |-> <<>>, i |-> 0]
  /\ procs = {}
  /\ dispatched = EmptyDict
  /\ fetched = EmptyDict
  /\ last_write = [by |-> "none", held |-> FALSE, created |-> FALSE]

(***************************************************************************)
(* ViewSpec: a Pool and two Subset_Pools, changed through the Pool's own   *)
(* methods only.                                                           *)
(***************************************************************************)
\* Pool.__init__ / Subset_Pool.__init__: empty dicts, empty subset_pools.
PoolInit ==
  /\ data = [p \in Pools |-> EmptyDict]
  /\ subset_pools = [p \in Pools |-> <<>>]
  /\ last = Op("init", FALSE, FALSE)
  /\ ServerIdle
  /\ KeyIdle

\* The records of the view scenarios are evaluated ones.
ViewInit ==
  /\ PoolInit
  /\ condition \in {c \in [SubPools -> {"fit", "key", "top"}] : Pure(c["T"])}
  /\ heap = [o \in AllObjs |-> FitnessOf(o)]

ViewNext ==
  \/ \E k \in Keys, v \in Objs : Set(k, v)
  \/ \E k \in Keys : Delete(k)
  \/ \E v1, v2 \in Objs : Extend(<<(<<1, v1>>), (<<NumKeys, v2>>)>>)
  \/ \E p \in Pools, s \in SubPools : AddSubsetPool(p, s)

ViewSpec == ViewInit /\ [][ViewNext]_vars

(***************************************************************************)
(* GateSpec and ResyncSpec start as Synchronized.__init__ leaves the pool: *)
(* a Pool G with the Subset_Pool S (valid_parents) registered on it.       *)
(***************************************************************************)
LocalInit ==
  /\ data = [p \in Pools |-> EmptyDict]
  /\ subset_pools = [p \in Pools |-> IF p = "G" THEN <<"S">> ELSE <<>>]
  /\ last = Op("init", FALSE, FALSE)
  /\ ServerIdle
  /\ KeyIdle

\* The keys these scenarios use.
StoreKeys == Keys \ {NumKeys}

\* GateSpec: S is also written and deleted from directly, and T can be
\* registered on S.
GateInit ==
  /\ LocalInit
  /\ condition \in [SubPools -> {"fit", "key"}]
  /\ heap = [o \in AllObjs |-> FitnessOf(o)]

GateNext ==
  \/ \E k \in StoreKeys, v \in Objs : Set(k, v)
  \/ \E k \in StoreKeys : Delete(k)
  \/ \E k \in StoreKeys, v \in Objs : SubsetSet("S", k, v)
  \/ \E k \in StoreKeys : SubsetDelete("S", k)
  \/ AddSubsetPool("S", "T")

GateSpec == GateInit /\ [][GateNext]_vars

\* ResyncSpec: the records start unevaluated and are evaluated in place, G
\* is also changed behind its methods, and update_subpools is called.
ResyncInit ==
  /\ LocalInit
  /\ condition \in {c \in [SubPools -> {"tested", "key"}] : c["T"] = "key"}
  /\ heap = [o \in AllObjs |-> NoFitness]

ResyncNext ==
  \/ \E k \in StoreKeys, v \in Objs : Set(k, v)
  \/ \E k \in StoreKeys : Delete(k)
  \/ \E o \in Objs : SetFitness(o)
  \/ \E k \in StoreKeys, v \in Objs : RawSet(k, v)
  \/ \E k \in StoreKeys : RawPop(k)
  \/ UpdateSubpools

ResyncSpec == ResyncInit /\ [][ResyncNext]_vars

\* Subset pool s holds exactly {k: v in p | condition_s(k, v)}.
Consistent(s, p) == data[s] = Filter(s, p)
OnG == {subset_pools["G"][i] : i \in 1..Len(subset_pools["G"])}

\* C1: after every set, delete or extend on the pool G, each subset pool
\* registered on G whose predicate reads only (key, record) holds exactly
\* the entries of G that satisfy its predicate, with G's current values.
C1_ViewConsistency ==
  \A s \in OnG : Pure(condition[s]) => Consistent(s, "G")

\* A delete on G has just removed a key while a registered subset pool with
\* a predicate on (key, record) holds some but not all of G's entries.
C1_Witness ==
  /\ last.op = "delete" /\ ~last.flag
  /\ \E s \in OnG : /\ Pure(condition[s])
                    /\ data[s] # EmptyDict
                    /\ DOMAIN data[s] # DOMAIN data["G"]

\* C8: a direct set on a Subset_Pool that its predicate rejects raises
\* nothing and changes neither that subset pool, nor the pools registered
\* under it, nor its parent, whether or not the subset pool held the key.
C8_WriteGate ==
  [][(last'.op = "subset_set" /\ last'.flag)
       => (data' = data /\ subset_pools' = subset_pools /\ heap' = heap)]_vars

\* A rejected direct set on S for a key S holds, with T registered under S
\* and holding that key's entry as well.
C8_Witness ==
  /\ last.op = "subset_set" /\ last.flag /\ last.hit
  /\ subset_pools["S"] = <<"T">>
  /\ data["T"] # EmptyDict
  /\ data["G"] # EmptyDict

\* C9: after update_subpools on a pool whose content changed behind its
\* methods, every registered subset pool equals {k: v in pool | P(k, v)};
\* no subset pool keeps a key the pool no longer holds.
C9_Resync ==
  last.op = "update_subpools" =>
    \A s \in OnG : Pure(condition[s]) => Consistent(s, "G")

\* C10: add_subset_pool on G leaves the new subset pool with exactly the
\* entries of G that satisfy its predicate, leaves G as it was, and appends
\* the subset pool to G.subset_pools.
C10_Register ==
  [][(last'.op = "add_subset_pool" /\ subset_pools'["G"] # subset_pools["G"])
       => LET s == subset_pools'["G"][Len(subset_pools'["G"])]
          IN /\ subset_pools'["G"] = Append(subset_pools["G"], s)
             /\ data'[s] = Filter(s, "G")
             /\ data'["G"] = data["G"]]_vars

\* A 'top two by fitness' subset pool has just been registered on a pool
\* that holds the records with fitness 1, 5 and 9: it holds the 5 and the 9.
C10_Witness ==
  /\ last.op = "add_subset_pool"
  /\ Len(subset_pools["G"]) > 0
  /\ LET s == subset_pools["G"][Len(subset_pools["G"])]
         held(p) == {data[p][k] : k \in DOMAIN data[p]}
     IN /\ condition[s] = "top"
        /\ Cardinality(DOMAIN data["G"]) = 3
        /\ {heap[o] : o \in held("G")} = {1, 5, 9}
        /\ {heap[o] : o \in held(s)} = {5, 9}
        /\ Cardinality(DOMAIN data[s]) = 2

(***************************************************************************)
(* The orchestrator (DGA/Server.py): Server.init, then per client id a     *)
(* chain of processes run_client -> server_callback -> run_client ...,     *)
(* each started by make_call from the one before it.                       *)
(***************************************************************************)
MaxIter == 2
MaxProcs == 2
PoolCap == 2

\* Genetic_Algorithm(..., num_parents=2)
NumParents == 2

GeneNames == {"a", "b", "c"}
NoGene == "None"
\* The values Client.run() returns.
Fits == {1, 2}
ClientIds == 0..(MaxProcs - 1)

\* A gene record of <run>/pool, as create_gene and run_client write it.
GeneRec(f, st) == [fitness |-> f, status |-> st]
NoData == GeneRec(NoFitness, "none")
NoArgs == [call_type |-> "none", gene_name |-> NoGene, count |-> 0]

\* pool_functions.load_gene / write_gene: read and write one record file.
load_gene(files, name) == files[name]
write_gene(files, data_, name) == DictSet(files, name, data_)

Tested(pl) == {g \in DOMAIN pl : pl[g].status = "tested"}
Lowest(pl) ==
  {g \in Tested(pl) : \A h \in Tested(pl) : pl[g].fitness <= pl[h].fitness}

\* The outcomes of Algorithm.fetch_gene on the pool pl it loaded: below
\* capacity a new gene is created; at capacity it needs NumParents tested
\* parents, and a gene with a new name replaces a lowest-fitness record.
\* The name is the hash of the payload and can be one already in the pool.
FetchOutcomes(pl) ==
  IF Cardinality(DOMAIN pl) < PoolCap
  THEN {[success |-> TRUE, gene_name |-> g, evict |-> {}] : g \in GeneNames}
  ELSE IF Cardinality(Tested(pl)) < NumParents
  THEN {[success |-> FALSE, gene_name |-> NoGene, evict |-> {}]}
  ELSE {[success |-> TRUE, gene_name |-> g, evict |-> {}] :
          g \in GeneNames \cap DOMAIN pl}
       \cup {[success |-> TRUE, gene_name |-> g, evict |-> {e}] :
          g \in GeneNames \ DOMAIN pl, e \in Lowest(pl)}

\* Algorithm.create_gene, after the eviction fetch_gene decided.
create_gene(files, o) ==
  write_gene([g \in (DOMAIN files) \ o.evict |-> files[g]],
             GeneRec(NoFitness, "being tested"), o.gene_name)

\* The effect of one fetch_gene call on <run>/pool by process who.
FetchWrites(who, by, o) ==
  IF o.success
  THEN /\ pool_files' = create_gene(pool_files, o)
       /\ last_write' = [by |-> by, held |-> who \in pool_lock,
                         created |-> o.gene_name \notin DOMAIN pool_files]
  ELSE UNCHANGED <<pool_files, last_write>>

\* pool is alg.pool of a server_callback, from Algorithm.__init__ until the
\* with block ends: the records loaded, with what this fetch_gene wrote.
Proc(c, ct, pc, g, n, gd, ok, pl) ==
  [client_id |-> c, call_type |-> ct, pc |-> pc, gene_name |-> g,
   count |-> n, gene_data |-> gd, success |-> ok, pool |-> pl]

\* A process started by Popen: it has read nothing yet.
NewProc(c) == Proc(c, "none", "main", NoGene, 0, NoData, FALSE, EmptyDict)

\* subprocess.Popen as the caller's last statement: the child starts and
\* the caller (a process of procs, or Server.init) runs to its end.
SpawnKeepParent(ps, parent, c) == ps \cup {NewProc(c)}
Spawn(ps, parent, c) == (ps \ {parent}) \cup {NewProc(c)}

\* Server.make_call: write the handoff record, start the process.
make_call(parent, client_id, gene_name, call_type, count) ==
  /\ args_files' = [args_files EXCEPT ![client_id] =
       [call_type |-> call_type, gene_name |-> gene_name, count |-> count]]
  /\ procs' = Spawn(procs, parent, client_id)
  /\ dispatched' = IF call_type = "run_client"
                   THEN [dispatched EXCEPT ![client_id] = @ + 1]
                   ELSE dispatched

Step(p, q) == procs' = (procs \ {p}) \cup {q}

\* count = 0
InitCount == 0
IncrementNone(count) == count
\* count += 1
Increment(count) == count + 1

\* Server.init, lines 75-78: one fetch_gene per worker slot, no lock taken.
InitFetch ==
  /\ init_proc.pc = "fetch"
  /\ \E o \in FetchOutcomes(pool_files) :
       /\ FetchWrites("init", "init", o)
       /\ init_proc' =
            [init_proc EXCEPT
               !.init_genes = Append(@, <<o.gene_name, o.success>>),
               !.pc = IF Len(init_proc.init_genes) + 1 = num_parallel_processes
                      THEN "dispatch" ELSE "fetch"]
  /\ UNCHANGED <<iterations, num_parallel_processes, pool_lock, args_files,
                 log_files, procs, dispatched, fetched, poolVars, keyVars>>

\* Server.init calling every worker with client_id 0: the chains share one
\* handoff record.
InitDispatchOneId ==
  /\ init_proc.pc = "dispatch"
  /\ LET i == init_proc.i
         g_name == init_proc.init_genes[i + 1][1]
     IN /\ make_call(init_proc, 0, g_name, "run_client", InitCount)
        /\ init_proc' = [init_proc EXCEPT
                           !.i = i + 1,
                           !.pc = IF i + 1 = num_parallel_processes
                                  THEN "exit" ELSE "dispatch"]
  /\ UNCHANGED <<iterations, num_parallel_processes, pool_files, pool_lock,
                 log_files, fetched, last_write, poolVars, keyVars>>

\* Server.init, lines 81-83: one run_client call per fetched gene.
InitDispatch ==
  /\ init_proc.pc = "dispatch"
  /\ LET i == init_proc.i
         g_name == init_proc.init_genes[i + 1][1]
     IN /\ make_call(init_proc, i, g_name, "run_client", InitCount)
        /\ init_proc' = [init_proc EXCEPT
                           !.i = i + 1,
                           !.pc = IF i + 1 = num_parallel_processes
                                  THEN "exit" ELSE "dispatch"]
  /\ UNCHANGED <<iterations, num_parallel_processes, pool_files, pool_lock,
                 log_files, fetched, last_write, poolVars, keyVars>>

\* __main__: load the handoff record and enter the call it names.
Main(p) ==
  /\ p.pc = "main"
  /\ LET a == args_files[p.client_id]
     IN Step(p, [p EXCEPT !.call_type = a.call_type,
                          !.gene_name = a.gene_name,
                          !.count = a.count,
                          !.pc = IF a.call_type = "run_client"
                                 THEN "rc_load" ELSE "cb_start"])
  /\ UNCHANGED <<iterations, num_parallel_processes, pool_files, pool_lock,
                 args_files, log_files, init_proc, dispatched, fetched,
                 last_write, poolVars, keyVars>>

\* run_client, line 88: Client.__init__ reads the gene record, no lock taken.
\* A missing record file raises.
RcLoad(p) ==
  /\ p.pc = "rc_load"
  /\ IF p.gene_name \in DOMAIN pool_files
     THEN Step(p, [p EXCEPT !.gene_data = load_gene(pool_files, p.gene_name),
                            !.pc = "rc_run"])
     ELSE Step(p, [p EXCEPT !.pc = "error"])
  /\ UNCHANGED <<iterations, num_parallel_processes, pool_files, pool_lock,
                 args_files, log_files, init_proc, dispatched, fetched,
                 last_write, poolVars, keyVars>>

\* run_client, lines 89-94: evaluate, set fitness and status.
RcRun(p) ==
  /\ p.pc = "rc_run"
  /\ \E f \in Fits :
       Step(p, [p EXCEPT !.gene_data = GeneRec(f, "tested"), !.pc = "rc_lock"])
  /\ UNCHANGED <<iterations, num_parallel_processes, pool_files, pool_lock,
                 args_files, log_files, init_proc, dispatched, fetched,
                 last_write, poolVars, keyVars>>

\* A lock that does not exclude: every process gets it at once.
LockShared(p, next) ==
  /\ pool_lock' = pool_lock \cup {p.client_id}
  /\ Step(p, [p EXCEPT !.pc = next])
  /\ UNCHANGED <<iterations, num_parallel_processes, pool_files, args_files,
                 log_files, init_proc, dispatched, fetched, last_write,
                 poolVars, keyVars>>

\* portalocker.Lock(pool_lock_path, timeout=100).__enter__
Lock(p, next) ==
  /\ pool_lock = {}
  /\ pool_lock' = {p.client_id}
  /\ Step(p, [p EXCEPT !.pc = next])
  /\ UNCHANGED <<iterations, num_parallel_processes, pool_files, args_files,
                 log_files, init_proc, dispatched, fetched, last_write,
                 poolVars, keyVars>>

\* The LockException caught and ignored: the process goes on without the
\* lock.
LockTimeoutIgnored(p) ==
  /\ p.pc \in {"rc_lock", "cb_lock"}
  /\ pool_lock # {}
  /\ Step(p, [p EXCEPT !.pc = IF p.pc = "rc_lock" THEN "rc_write"
                                                  ELSE "cb_load"])
  /\ UNCHANGED <<iterations, num_parallel_processes, pool_files, pool_lock,
                 args_files, log_files, init_proc, dispatched, fetched,
                 last_write, poolVars, keyVars>>

\* The lock stayed taken for the whole timeout: LockException, the process
\* dies.
LockTimeout(p) ==
  /\ p.pc \in {"rc_lock", "cb_lock"}
  /\ pool_lock # {}
  /\ Step(p, [p EXCEPT !.pc = "error"])
  /\ UNCHANGED <<iterations, num_parallel_processes, pool_files, pool_lock,
                 args_files, log_files, init_proc, dispatched, fetched,
                 last_write, poolVars, keyVars>>

\* portalocker.Lock.__exit__; the pool loaded inside the with block is not
\* used after it.
Unlock(p, next) ==
  /\ pool_lock' = pool_lock \ {p.client_id}
  /\ Step(p, [p EXCEPT !.pc = next, !.pool = EmptyDict])
  /\ UNCHANGED <<iterations, num_parallel_processes, pool_files, args_files,
                 log_files, init_proc, dispatched, fetched, last_write,
                 poolVars, keyVars>>

RcLock(p) == p.pc = "rc_lock" /\ Lock(p, "rc_write")

\* run_client with make_call inside the with block: the callback is started
\* before the lock is released.
RcWriteCallLocked(p) ==
  /\ p.pc = "rc_write"
  /\ pool_files' = write_gene(pool_files, p.gene_data, p.gene_name)
  /\ last_write' = [by |-> "run_client", held |-> p.client_id \in pool_lock,
                    created |-> p.gene_name \notin DOMAIN pool_files]
  /\ log_files' = [log_files EXCEPT ![p.client_id] = @ + 1]
  /\ Step(p, [p EXCEPT !.pc = "rc_call"])
  /\ UNCHANGED <<iterations, num_parallel_processes, pool_lock, args_files,
                 init_proc, dispatched, fetched, poolVars, keyVars>>

\* run_client, lines 97-102: write the record back, append the log line.
RcWrite(p) ==
  /\ p.pc = "rc_write"
  /\ pool_files' = write_gene(pool_files, p.gene_data, p.gene_name)
  /\ last_write' = [by |-> "run_client", held |-> p.client_id \in pool_lock,
                    created |-> p.gene_name \notin DOMAIN pool_files]
  /\ log_files' = [log_files EXCEPT ![p.client_id] = @ + 1]
  /\ Step(p, [p EXCEPT !.pc = "rc_unlock"])
  /\ UNCHANGED <<iterations, num_parallel_processes, pool_lock, args_files,
                 init_proc, dispatched, fetched, poolVars, keyVars>>

RcUnlock(p) == p.pc = "rc_unlock" /\ Unlock(p, "rc_call")

\* run_client, line 105: call back, with the gene name and count received.
RcCall(p) ==
  /\ p.pc = "rc_call"
  /\ make_call(p, p.client_id, p.gene_name, "server_callback", p.count)
  /\ UNCHANGED <<iterations, num_parallel_processes, pool_files, pool_lock,
                 log_files, init_proc, fetched, last_write, poolVars, keyVars>>

\* server_callback, lines 108-112: count the iteration, exit at the budget.
CbStart(p) ==
  /\ p.pc = "cb_start"
  /\ LET count == Increment(p.count)
     IN Step(p, [p EXCEPT !.count = count,
                          !.pc = IF count >= iterations
                                 THEN "done" ELSE "cb_lock"])
  /\ UNCHANGED <<iterations, num_parallel_processes, pool_files, pool_lock,
                 args_files, log_files, init_proc, dispatched, fetched,
                 last_write, poolVars, keyVars>>

CbLock(p) == p.pc = "cb_lock" /\ Lock(p, "cb_load")

\* server_callback, line 120: Algorithm.__init__ loads every record file
\* of <run>/pool into alg.pool.
CbLoad(p) ==
  /\ p.pc = "cb_load"
  /\ Step(p, [p EXCEPT !.pool = pool_files, !.pc = "cb_fetch"])
  /\ UNCHANGED <<iterations, num_parallel_processes, pool_files, pool_lock,
                 args_files, log_files, init_proc, dispatched, fetched,
                 last_write, poolVars, keyVars>>

\* server_callback, line 123: fetch the next gene, decided on alg.pool.
CbFetch(p) ==
  /\ p.pc = "cb_fetch"
  /\ \E o \in FetchOutcomes(p.pool) :
       /\ FetchWrites(p.client_id, "server_callback", o)
       /\ Step(p, [p EXCEPT !.gene_name = o.gene_name,
                            !.success = o.success,
                            !.pool = IF o.success THEN create_gene(@, o)
                                     ELSE @,
                            !.pc = "cb_unlock"])
       /\ fetched' = IF o.success
                     THEN [fetched EXCEPT ![p.client_id] = @ + 1]
                     ELSE fetched
  /\ UNCHANGED <<iterations, num_parallel_processes, pool_lock, args_files,
                 log_files, init_proc, dispatched, poolVars, keyVars>>

\* server_callback with the test of success and the sleep inside the with
\* block: the lock is kept over the delay.
CbUnlockSleepLocked(p) ==
  /\ p.pc = "cb_unlock"
  /\ IF p.success
     THEN Unlock(p, "cb_call")
     ELSE /\ Step(p, [p EXCEPT !.pc = "cb_sleep", !.pool = EmptyDict])
          /\ UNCHANGED <<iterations, num_parallel_processes, pool_files,
                         pool_lock, args_files, log_files, init_proc,
                         dispatched, fetched, last_write, poolVars, keyVars>>

\* server_callback, lines 117 and 126-129: leave the with block, then break
\* or sleep.
CbUnlock(p) ==
  /\ p.pc = "cb_unlock"
  /\ Unlock(p, IF p.success THEN "cb_call" ELSE "cb_sleep")

\* time.sleep(1), then the next round of the while loop.
CbSleep(p) ==
  /\ p.pc = "cb_sleep"
  /\ Step(p, [p EXCEPT !.pc = "cb_lock"])
  /\ UNCHANGED <<iterations, num_parallel_processes, pool_files, pool_lock,
                 args_files, log_files, init_proc, dispatched, fetched,
                 last_write, poolVars, keyVars>>

\* server_callback, line 133: dispatch the next worker.
CbCall(p) ==
  /\ p.pc = "cb_call"
  /\ make_call(p, p.client_id, p.gene_name, "run_client", p.count)
  /\ UNCHANGED <<iterations, num_parallel_processes, pool_files, pool_lock,
                 log_files, init_proc, fetched, last_write, poolVars, keyVars>>

\* The pool objects play no part in the orchestrator's runs.
PoolIdle ==
  /\ data = [p \in Pools |-> EmptyDict]
  /\ subset_pools = [p \in Pools |-> <<>>]
  /\ condition = [s \in SubPools |-> "key"]
  /\ heap = [o \in AllObjs |-> NoFitness]
  /\ last = Op("init", FALSE, FALSE)

\* Server.init on a new run directory, the configuration being chosen.
Started ==
  /\ PoolIdle
  /\ KeyIdle
  /\ pool_files = EmptyDict
  /\ pool_lock = {}
  /\ args_files = [c \in 0..(num_parallel_processes - 1) |-> NoArgs]
  /\ log_files = [c \in 0..(num_parallel_processes - 1) |-> 0]
  /\ init_proc = [pc |-> "fetch", init_genes |-> <<>>, i |-> 0]
  /\ procs = {}
  /\ dispatched = [c \in 0..(num_parallel_processes - 1) |-> 0]
  /\ fetched = [c \in 0..(num_parallel_processes - 1) |-> 0]
  /\ last_write = [by |-> "none", held |-> FALSE, created |-> FALSE]

\* Server(call_type='init', iterations, num_parallel_processes): every
\* budget up to MaxIter for one and two slots, the budgets 0 and 1 for more.
Init ==
  /\ iterations \in 0..MaxIter
  /\ num_parallel_processes \in 1..MaxProcs
  /\ num_parallel_processes <= 2 \/ iterations <= 1
  /\ Started

Next ==
  \/ InitFetch
  \/ InitDispatch
  \/ \E p \in procs : Main(p)
  \/ \E p \in procs : RcLoad(p)
  \/ \E p \in procs : RcRun(p)
  \/ \E p \in procs : RcLock(p)
  \/ \E p \in procs : RcWrite(p)
  \/ \E p \in procs : RcUnlock(p)
  \/ \E p \in procs : RcCall(p)
  \/ \E p \in procs : CbStart(p)
  \/ \E p \in procs : CbLock(p)
  \/ \E p \in procs : CbLoad(p)
  \/ \E p \in procs : CbFetch(p)
  \/ \E p \in procs : CbUnlock(p)
  \/ \E p \in procs : CbSleep(p)
  \/ \E p \in procs : CbCall(p)
  \/ \E p \in procs : LockTimeout(p)

Spec == Init /\ [][Next]_vars

\* RaceSpec: two slots and one more iteration than MaxIter, the shortest
\* run in which a callback evicts a record that a worker is evaluating.
RaceInit ==
  /\ iterations = MaxIter + 1
  /\ num_parallel_processes = 2
  /\ Started

RaceSpec == RaceInit /\ [][Next]_vars

\* The processes running run_client: started with a run_client handoff
\* record and not yet at the end of the call.
RcPcs == {"rc_load", "rc_run", "rc_lock", "rc_write", "rc_unlock", "rc_call"}
LiveWorkers ==
  {p \in procs :
     \/ p.pc \in RcPcs
     \/ p.pc = "main" /\ args_files[p.client_id].call_type = "run_client"}
Done == \E p \in procs : p.pc = "done"
FaultFree == \A p \in procs : p.pc # "error"

\* C2: no run_client handoff record is written and no worker process runs
\* with a counter value at or above the iteration budget, whatever the
\* budget is (0 and 1 included).
C2_Termination ==
  /\ \A c \in DOMAIN args_files :
       args_files[c].call_type = "run_client"
         => args_files[c].count < iterations
  /\ \A p \in procs : p.call_type = "run_client" => p.count < iterations

\* C3: with one worker slot and no fault, the chain never dispatches more
\* workers than the iteration budget B, and when it has reached DONE it has
\* dispatched exactly B (the one started by init included).
C3_ExactDispatch ==
  (num_parallel_processes = 1 /\ FaultFree)
    => /\ dispatched[0] <= iterations
       /\ Done => dispatched[0] = iterations

\* C4: in every state the iteration counter a process of a chain carries
\* equals the number of server_callback fetches of that chain that have
\* succeeded so far, also once the chain has reached DONE.
C4_CounterIsFetchCount ==
  \A p \in procs : p.pc # "main" => p.count = fetched[p.client_id]

\* C5: every write to the store <run>/pool, by init, run_client or
\* server_callback, is made by a process that holds POOL_LOCK.lock.
C5_WritesUnderLock == last_write.by # "none" => last_write.held

\* C6: the store is what some serial order of the processes' whole
\* read-evaluate-write steps produces: a worker's write goes to the record
\* it read, so it never brings a key into the store that is not there.
C6_Serializable == ~(last_write.by = "run_client" /\ last_write.created)

\* C7: the number of live run_client processes never exceeds
\* num_parallel_processes.
C7_Backpressure == Cardinality(LiveWorkers) <= num_parallel_processes

\* Two workers are live, each dispatched by a callback of its chain.
C7_Witness ==
  /\ num_parallel_processes = 2
  /\ Cardinality(LiveWorkers) = 2
  /\ \A c \in DOMAIN fetched : fetched[c] >= 1

(***************************************************************************)
(* TopSpec: G with the subset pool S registered, S's predicate being 'top  *)
(* two by fitness' over G; G is set and deleted from and resynchronised.   *)
(***************************************************************************)
TopKeys == 1..(NumKeys + 1)

TopInit ==
  /\ LocalInit
  /\ condition = [s \in SubPools |-> IF s = "S" THEN "top" ELSE "key"]
  /\ heap = [o \in AllObjs |-> FitnessOf(o)]

TopNext ==
  \/ \E k \in TopKeys, v \in AllObjs : Set(k, v)
  \/ \E k \in TopKeys : Delete(k)
  \/ UpdateSubpools

TopSpec == TopInit /\ [][TopNext]_vars

\* The number of records of G that rank above the record under key k.
Above(d, k) ==
  Cardinality({j \in (DOMAIN d["G"]) \ {k} : heap[d["G"][j]] > heap[d["G"][k]]})

\* The entries of G that fewer than two records of G rank above.
TopTwo(d) ==
  [k \in {j \in DOMAIN d["G"] : Above(d, j) < 2} |-> d["G"][k]]

\* C11: after a set of a new record on G followed by update_subpools, the
\* view registered with the predicate 'top two by fitness' holds exactly the
\* top two records of G as it is after the insert.
C11_TopK ==
  [][(last.op = "set" /\ ~last.hit /\ last'.op = "update_subpools")
       => data'["S"] = TopTwo(data')]_vars

\* G holds the fitnesses 0.1, 0.5, 0.9 and 0.7, the last operation was the
\* resynchronisation, and the view holds 0.9 and 0.7.
C11_Witness ==
  /\ last.op = "update_subpools"
  /\ {heap[data["G"][k]] : k \in DOMAIN data["G"]} = {1, 5, 9, 7}
  /\ Cardinality(DOMAIN data["G"]) = 4
  /\ {heap[data["S"][k]] : k \in DOMAIN data["S"]} = {9, 7}
  /\ Cardinality(DOMAIN data["S"]) = 2

(***************************************************************************)
(* ChainSpec: S registered on G and T registered on S, both with           *)
(* predicates on (key, record); only G is set and deleted from.            *)
(***************************************************************************)
ChainInit ==
  /\ LocalInit
  /\ condition \in [SubPools -> {"fit", "key"}]
  /\ heap = [o \in AllObjs |-> FitnessOf(o)]

ChainNext ==
  \/ \E k \in Keys, v \in Objs : Set(k, v)
  \/ \E k \in Keys : Delete(k)
  \/ AddSubsetPool("S", "T")

ChainSpec == ChainInit /\ [][ChainNext]_vars

\* {k: v in G | P(k, v) and Q(k, v)}, P and Q the predicates of S and T.
FilterBoth ==
  LET ks == {k \in DOMAIN data["G"] :
               /\ Cond("S", data, k, data["G"][k])
               /\ Cond("T", data, k, data["G"][k])}
  IN [k \in ks |-> data["G"][k]]

\* C12: with S registered on G and T registered on S, after every set or
\* delete on G, S equals {k: v in G | P(k, v)} and T equals
\* {k: v in G | P(k, v) and Q(k, v)}.
C12_Chained ==
  /\ data["S"] = Filter("S", "G")
  /\ subset_pools["S"] = <<"T">> => data["T"] = FilterBoth

\* An overwrite on G has just gone through the chain; T holds some of S's
\* entries and S some of G's.
C12_Witness ==
  /\ last.op = "set" /\ last.hit
  /\ subset_pools["S"] = <<"T">>
  /\ data["T"] # EmptyDict
  /\ DOMAIN data["T"] # DOMAIN data["S"]
  /\ DOMAIN data["S"] # DOMAIN data["G"]

\* C13: after a failed fetch the callback releases the lock before the
\* delay, dispatches no worker and does not end; after the delay it goes
\* back to acquiring the lock with the same counter, and no retry counter
\* exists.  During the delay it does not hold the lock.
C13_Retry ==
  /\ [](\A p \in procs : p.pc = "cb_sleep"
          => /\ p.client_id \notin pool_lock
             /\ ~p.success)
  /\ [][\A p \in procs :
          /\ (p.pc = "cb_unlock" /\ ~p.success /\ p \notin procs')
               => /\ procs' = (procs \ {p})
                              \cup {[p EXCEPT !.pc = "cb_sleep",
                                              !.pool = EmptyDict]}
                  /\ pool_lock' = pool_lock \ {p.client_id}
                  /\ dispatched' = dispatched /\ args_files' = args_files
          /\ (p.pc = "cb_sleep" /\ p \notin procs')
               => /\ procs' = (procs \ {p}) \cup {[p EXCEPT !.pc = "cb_lock"]}
                  /\ dispatched' = dispatched /\ args_files' = args_files
                  /\ pool_lock' = pool_lock]_vars

\* A callback is in its delay after a failed fetch while the worker of
\* another chain, holding the lock, has just recorded its result.
C13_Witness ==
  \E p \in procs, q \in procs :
    /\ p.pc = "cb_sleep"
    /\ q.pc = "rc_unlock" /\ q.client_id # p.client_id
    /\ q.client_id \in pool_lock
    /\ last_write.by = "run_client"

\* The process of procs' that p has become in a step that changed p.
Became(p, q) == p \notin procs' /\ q \in procs' \ procs
                  /\ q.client_id = p.client_id

\* C14: the counter a chain carries is raised only by the step in which the
\* fetch of that server_callback reports success, and a chain enters DONE
\* only in such a step: never in a step that has not taken the lock and
\* fetched.
C14_IncrementAfterFetch ==
  [][\A p \in procs, q \in procs' :
       (Became(p, q) /\ p.pc # "main"
          /\ (q.count > p.count \/ (q.pc = "done" /\ p.pc # "done")))
         => (p.pc = "cb_fetch" /\ q.success /\ p.client_id \in pool_lock)]_vars

Sum(f) ==
  LET RECURSIVE S(_)
      S(D) == IF D = {} THEN 0
              ELSE LET c == CHOOSE x \in D : TRUE IN f[c] + S(D \ {c})
  IN S(DOMAIN f)

\* C15: the counter is one value for the whole run: the counter a callback
\* hands to the worker it dispatches equals the number of fetches that have
\* succeeded in all the chains together.
C15_GlobalCounter ==
  \A p \in procs : p.pc = "cb_call" => p.count = Sum(fetched)

\* C16: a process whose lock acquisition times out ends in the error state
\* with the store, the logs and the handoff records as they were and no
\* process started; a process in the error state stays there and no process
\* takes its client id over.
C16_TimeoutFatal ==
  [][\A p \in procs :
       /\ (p.pc \in {"rc_lock", "cb_lock"} /\ pool_lock # {}
             /\ p \notin procs')
            => /\ procs' = (procs \ {p}) \cup {[p EXCEPT !.pc = "error"]}
               /\ pool_files' = pool_files /\ log_files' = log_files
               /\ args_files' = args_files /\ pool_lock' = pool_lock
               /\ dispatched' = dispatched
       /\ p.pc = "error"
            => /\ p \in procs'
               /\ \A q \in procs' : q.client_id = p.client_id => q = p]_vars

\* A callback died on a lock timeout while the worker of the other chain
\* held the lock; that chain has since run on to DONE.
C16_Witness ==
  \E p \in procs, q \in procs :
    /\ p.pc = "error" /\ p.call_type = "server_callback"
    /\ q.client_id # p.client_id /\ q.pc = "done"
    /\ fetched[q.client_id] >= 1

(***************************************************************************)
(* KeySpec: the keys candidates are stored under.  SLURM/Algorithm.py      *)
(* names a gene file by get_pool_key(gene); DGA/Gene.py gives a Parameters *)
(* object the hash of (timestamp, iteration).                              *)
(***************************************************************************)
MaxClock == 1

Payloads == {"x", "y"}
Iterations == {1, 2}
\* The string hash seed of the Python process that computes hash().
HashSeeds == {"p1", "p2"}

\* get_pool_key: sha256 of the bytes of the gene.
get_pool_key(gene) == <<"sha256", gene>>

\* Parameters.__init__: hash((timestamp, iteration)) in a process whose
\* string hashing is seeded with seed; timestamp is the clock in seconds.
ParametersHash(seed, timestamp, iteration, values) ==
  <<"hash", seed, timestamp, iteration>>

KeyInit ==
  /\ PoolIdle
  /\ ServerIdle
  /\ KeyIdle

\* A second passes.
Tick ==
  /\ clock < MaxClock
  /\ clock' = clock + 1
  /\ UNCHANGED <<param_pool, gene_pool, made_params, made_genes,
                 poolVars, serverVars>>

\* Parameters(iteration, values), entered in a pool under its hash.
NewParameters(seed, iteration, values) ==
  /\ param_pool' = DictSet(param_pool,
                           ParametersHash(seed, clock, iteration, values),
                           values)
  /\ made_params' = made_params \cup {values}
  /\ UNCHANGED <<clock, gene_pool, made_genes, poolVars, serverVars>>

\* Algorithm.create_gene(gene): the record file is named by get_pool_key.
CreateGene(gene) ==
  /\ gene_pool' = DictSet(gene_pool, get_pool_key(gene), gene)
  /\ made_genes' = made_genes \cup {gene}
  /\ UNCHANGED <<clock, param_pool, made_params, poolVars, serverVars>>

KeyNext ==
  \/ Tick
  \/ \E seed \in HashSeeds, i \in Iterations, v \in Payloads :
       NewParameters(seed, i, v)
  \/ \E g \in Payloads : CreateGene(g)

KeySpec == KeyInit /\ [][KeyNext]_vars

\* C17: the key of a candidate is a function of its payload only, and
\* records created with the same payload, at any time, in any iteration and
\* in any process, make one entry: each pool holds one entry per payload.
C17_ContentAddress ==
  /\ Cardinality(DOMAIN gene_pool) = Cardinality(made_genes)
  /\ Cardinality(DOMAIN param_pool) = Cardinality(made_params)

\* C18: a record of the store that has status tested keeps its fitness and
\* its status for as long as it is in the store; the only later change is
\* its deletion.
C18_TestedImmutable ==
  [][\A g \in DOMAIN pool_files :
       (pool_files[g].status = "tested" /\ g \in DOMAIN pool_files')
         => pool_files'[g] = pool_files[g]]_vars

\* The processes running server_callback, their start included.
CbPcs == {"cb_start", "cb_lock", "cb_load", "cb_fetch", "cb_unlock",
          "cb_sleep", "cb_call", "done"}
IsCallback(p) ==
  \/ p.pc \in CbPcs
  \/ p.pc = "main" /\ args_files[p.client_id].call_type = "server_callback"

\* C19: run_client writes the tested record and the log line while it holds
\* the lock and starts the callback after it has released the lock; so
\* whenever a chain's callback exists, every worker dispatched in that chain
\* has written its record and its log line.
C19_RecordThenCallback ==
  \A p \in procs :
    /\ p.pc \in {"rc_write", "rc_unlock"} => p.client_id \in pool_lock
    /\ p.pc = "rc_unlock"
         => /\ pool_files[p.gene_name] = p.gene_data
            /\ p.gene_data.status = "tested"
    /\ p.pc = "rc_call" => p.client_id \notin pool_lock
    /\ IsCallback(p)
         => /\ p.client_id \notin pool_lock \/ p.pc \in CbPcs
            /\ log_files[p.client_id] = dispatched[p.client_id]
            /\ log_files[p.client_id] >= 1

\* A chain's callback has been started, without the lock, and the record
\* its worker wrote is in the store as tested.
C19_Witness ==
  \E p \in procs :
    /\ p.pc = "main" /\ IsCallback(p)
    /\ pool_lock = {}
    /\ args_files[p.client_id].gene_name \in DOMAIN pool_files
    /\ pool_files[args_files[p.client_id].gene_name].status = "tested"
    /\ dispatched[p.client_id] >= 2

\* C20: from Algorithm.__init__ under the lock until the lock is released,
\* the pool a callback holds (with its own fetch applied) equals the store:
\* no other process changes the store in between.
C20_Snapshot ==
  /\ [](\A p \in procs :
          p.pc \in {"cb_fetch", "cb_unlock"}
            => /\ p.pool = pool_files
               /\ p.client_id \in pool_lock)
  /\ [][\A p \in procs :
          (p.pc \in {"cb_fetch", "cb_unlock"} /\ p \in procs')
            => pool_files' = pool_files]_vars

\* A callback holds the pool it loaded and has fetched from it, evicting a
\* record, while the worker of the other chain waits for the lock with its
\* result.
C20_Witness ==
  \E p \in procs, q \in procs :
    /\ p.pc = "cb_unlock" /\ p.success
    /\ Cardinality(DOMAIN p.pool) = PoolCap
    /\ last_write.by = "server_callback" /\ last_write.created
    /\ q.pc = "rc_lock"

\* ---------------------------------------------------------------------
\* FaultSpec: the orchestrator with the statements inside the with blocks
\* able to raise.
\* ---------------------------------------------------------------------

\* The pcs of a process that is inside a with portalocker.Lock block.
InBlock == {"rc_write", "rc_unlock", "cb_load", "cb_fetch", "cb_unlock"}

\* A process ended by an exception raised inside its with block: its
\* locals are gone.
Failed(p) ==
  Proc(p.client_id, p.call_type, "failed", NoGene, 0, NoData, FALSE,
       EmptyDict)

\* The exception leaving the process with the lock still taken, as an
\* acquire and a release with no try/finally around the block would.
RaiseKeepLock(p) ==
  /\ pool_lock' = pool_lock
  /\ Step(p, Failed(p))

\* An exception raised inside the with block: portalocker.Lock.__exit__
\* releases the lock, nothing catches the exception, the process ends.
Raise(p) ==
  /\ pool_lock' = pool_lock \ {p.client_id}
  /\ Step(p, Failed(p))

\* run_client, lines 97-102: write_gene raises, or write_logs raises after
\* the record has been written.
RcWriteFails(p) ==
  /\ p.pc = "rc_write"
  /\ \/ UNCHANGED <<pool_files, last_write>>
     \/ /\ pool_files' = write_gene(pool_files, p.gene_data, p.gene_name)
        /\ last_write' = [by |-> "run_client",
                          held |-> p.client_id \in pool_lock,
                          created |-> p.gene_name \notin DOMAIN pool_files]
  /\ Raise(p)
  /\ UNCHANGED <<iterations, num_parallel_processes, args_files, log_files,
                 init_proc, dispatched, fetched, poolVars, keyVars>>

\* server_callback, line 120: load_gene raises on a record file it cannot
\* unpickle.
CbLoadFails(p) ==
  /\ p.pc = "cb_load"
  /\ Raise(p)
  /\ UNCHANGED <<iterations, num_parallel_processes, pool_files, args_files,
                 log_files, init_proc, dispatched, fetched, last_write,
                 poolVars, keyVars>>

\* server_callback, line 123: fetch_gene raises before it writes.
CbFetchFails(p) ==
  /\ p.pc = "cb_fetch"
  /\ Raise(p)
  /\ UNCHANGED <<iterations, num_parallel_processes, pool_files, args_files,
                 log_files, init_proc, dispatched, fetched, last_write,
                 poolVars, keyVars>>

FaultNext ==
  \/ Next
  \/ \E p \in procs : RcWriteFails(p)
  \/ \E p \in procs : CbLoadFails(p)
  \/ \E p \in procs : CbFetchFails(p)

FaultSpec == Init /\ [][FaultNext]_vars

\* C21: the lock is held only by a process that is inside its with block:
\* a process that failed inside the block, and one that is starting a
\* continuation, sleeping, ended or not yet at the block, does not hold it;
\* so the lock is never left taken by a process that has ended.
C21_LockReleased ==
  /\ \A p \in procs : p.pc \notin InBlock => p.client_id \notin pool_lock
  /\ \A c \in pool_lock :
       \E p \in procs : p.client_id = c /\ p.pc \in InBlock
  /\ Cardinality(pool_lock) <= 1

\* A callback failed inside its with block and the worker of another chain
\* has taken the lock since and written its record.
C21_Witness ==
  \E p \in procs, q \in procs :
    /\ p.pc = "failed" /\ p.call_type = "server_callback"
    /\ q.client_id # p.client_id
    /\ q.pc = "rc_unlock" /\ q.client_id \in pool_lock

\* ---------------------------------------------------------------------
\* LiveSpec: the run of RaceSpec in which no lock acquisition times out,
\* every process that can take a step eventually takes one.
\* ---------------------------------------------------------------------

\* A step of the process of chain c, the lock timeout apart.
ChainStep(c) ==
  \E p \in procs :
    /\ p.client_id = c
    /\ \/ Main(p)
       \/ RcLoad(p)
       \/ RcRun(p)
       \/ RcLock(p)
       \/ RcWrite(p)
       \/ RcUnlock(p)
       \/ RcCall(p)
       \/ CbStart(p)
       \/ CbLock(p)
       \/ CbLoad(p)
       \/ CbFetch(p)
       \/ CbUnlock(p)
       \/ CbSleep(p)
       \/ CbCall(p)

LiveNext ==
  \/ InitFetch
  \/ InitDispatch
  \/ \E c \in ClientIds : ChainStep(c)

\* The operating system runs every process that is not blocked.
Fairness ==
  /\ WF_vars(InitFetch)
  /\ WF_vars(InitDispatch)
  /\ \A c \in ClientIds : WF_vars(ChainStep(c))

LiveSpec == RaceInit /\ [][LiveNext]_vars /\ Fairness

\* The callback of chain c is in the delay after a failed fetch.
Sleeping(c) == \E p \in procs : p.client_id = c /\ p.pc = "cb_sleep"

\* A process that has not ended.
Live(p) == p.pc \notin {"done", "error", "failed"}

\* init has ended, every chain it started has reached DONE, no process is
\* live.
AllDone ==
  /\ init_proc.pc = "exit"
  /\ \A c \in 0..(num_parallel_processes - 1) :
       \E p \in procs : p.client_id = c /\ p.pc = "done"
  /\ \A p \in procs : ~Live(p)

\* C22: in a fair run in which every evaluation returns, no lock
\* acquisition times out and every chain's fetch fails only finitely often,
\* every chain started by init eventually reaches DONE and no process stays
\* live; and whenever a process is live, some process can take a step.
C22_Completion ==
  /\ (\A c \in ClientIds : <>[]~Sleeping(c)) => <>[]AllDone
  /\ []((init_proc.pc # "exit" \/ \E p \in procs : Live(p))
          => ENABLED <<LiveNext>>_vars)

\* The handoff record r is the one process q runs with.
Loaded(q, r) ==
  /\ q.call_type = r.call_type
  /\ q.gene_name = r.gene_name
  /\ q.count = r.count

\* C23: a process is started only with its handoff record written, the
\* record of a chain is written only in a step that starts the process that
\* will read it, it is not written again while that process has not read
\* it, and the process enters the call, the gene name and the count of that
\* record.
C23_Handoff ==
  /\ [](\A p \in procs :
          p.pc = "main"
            => args_files[p.client_id].call_type
                 \in {"run_client", "server_callback"})
  /\ [][\A c \in DOMAIN args_files :
          /\ (\E p \in procs : p.client_id = c /\ p.pc = "main")
               => args_files'[c] = args_files[c]
          /\ args_files'[c] # args_files[c]
               => NewProc(c) \in procs' \ procs
          /\ \A p \in procs :
               (p.client_id = c /\ p.pc = "main" /\ p \notin procs')
                 => \E q \in procs' \ procs :
                      /\ q.client_id = c
                      /\ q.pc \in {"rc_load", "cb_start"}
                      /\ Loaded(q, args_files[c])]_vars

\* A worker dispatched by a callback has read its handoff record while the
\* process of the other chain, started later, has not yet read its own.
C23_Witness ==
  \E p \in procs, q \in procs :
    /\ p.pc = "rc_load" /\ p.count >= 1
    /\ Loaded(p, args_files[p.client_id])
    /\ q.client_id # p.client_id /\ q.pc = "main"
    /\ args_files[q.client_id].call_type = "server_callback"

\* ---------------------------------------------------------------------
\* WideSpec: one worker slot more than the pool has room for, with the
\* budgets 0 and 1: every callback ends at its budget test, the steps of
\* the with block of server_callback do not occur.
\* ---------------------------------------------------------------------

WideInit ==
  /\ iterations \in 0..1
  /\ num_parallel_processes = PoolCap + 1
  /\ Started

WideNext ==
  \/ InitFetch
  \/ InitDispatch
  \/ \E p \in procs : Main(p)
  \/ \E p \in procs : RcLoad(p)
  \/ \E p \in procs : RcRun(p)
  \/ \E p \in procs : RcLock(p)
  \/ \E p \in procs : RcWrite(p)
  \/ \E p \in procs : RcUnlock(p)
  \/ \E p \in procs : RcCall(p)
  \/ \E p \in procs : CbStart(p)
  \/ \E p \in procs : LockTimeout(p)

WideSpec == WideInit /\ [][WideNext]_vars

\* C24: every worker init has dispatched is for a gene whose fetch reported
\* success, and a callback that dispatches a worker does so for the gene of
\* a fetch that reported success.
C24_SuccessOnly ==
  /\ \A i \in 1..init_proc.i : init_proc.init_genes[i][2]
  /\ \A p \in procs : p.pc = "cb_call" => p.success

\* C25: a delete on G that raises KeyError leaves G and every subset pool
\* as they were.
C25_FailedDelete ==
  [][(last'.op = "delete" /\ last'.flag) => data' = data]_vars

\* ---------------------------------------------------------------------
\* ReinitSpec: G with S registered on it, T registered on G or on S; G is
\* written through its methods and behind them, and reinitialize_subsets is
\* called.
\* ---------------------------------------------------------------------

ReinitInit ==
  /\ LocalInit
  /\ condition \in [SubPools -> {"fit", "key", "top"}]
  /\ heap = [o \in AllObjs |-> FitnessOf(o)]

\* The records of this scenario: one the predicate 'fit' rejects and one it
\* accepts, the lowest and the highest fitness.
ReinitObjs == {o \in Objs : FitnessOf(o) # 5}

ReinitNext ==
  \/ \E k \in StoreKeys, v \in ReinitObjs : Set(k, v)
  \/ \E k \in StoreKeys, v \in ReinitObjs : RawSet(k, v)
  \/ \E k \in StoreKeys : RawPop(k)
  \/ \E p \in {"G", "S"} : AddSubsetPool(p, "T")
  \/ ReinitializeSubsets

ReinitSpec == ReinitInit /\ [][ReinitNext]_vars

\* What reinitialize_subsets leaves in the subset pool s for the key k: the
\* entry of G when G holds k and the predicate of s accepts it, else what s
\* held.
Pushed(s, k) ==
  IF k \in DOMAIN data["G"] /\ Cond(s, data, k, data["G"][k])
  THEN k \in DOMAIN data'[s] /\ data'[s][k] = data["G"][k]
  ELSE /\ k \in DOMAIN data'[s] <=> k \in DOMAIN data[s]
       /\ k \in DOMAIN data[s] => data'[s][k] = data[s][k]

\* C26: reinitialize_subsets on G leaves G unchanged and, in every subset
\* pool registered on G, writes the entries of G the predicate accepts and
\* leaves every other entry as it was: no key is removed from a subset
\* pool registered on G.
C26_ReinitAdds ==
  [][last'.op = "reinitialize_subsets"
       => /\ data'["G"] = data["G"]
          /\ \A s \in OnG : \A k \in Keys : Pushed(s, k)]_vars

\* C26 as stated: no key is removed from any subset pool.
C26_NeverRemoves ==
  [][last'.op = "reinitialize_subsets"
       => /\ data'["G"] = data["G"]
          /\ \A s \in SubPools : DOMAIN data[s] \subseteq DOMAIN data'[s]]_vars

\* reinitialize_subsets has run and S, registered on G, holds a key that G
\* no longer holds and an entry that its predicate rejects with the record
\* G now has for that key.
C26_Witness ==
  /\ last.op = "reinitialize_subsets"
  /\ \E k \in DOMAIN data["S"] : k \notin DOMAIN data["G"]
  /\ \E k \in DOMAIN data["S"] \cap DOMAIN data["G"] :
       ~Cond("S", data, k, data["G"][k])

====
